---- MODULE Spec2Model ----
(***************************************************************************)
(* A model of the AWS security scanner: the Scanner orchestrator (Scan,    *)
(* ScanConcurrent, addFinding, the read accessors), the three checks       *)
(* (scanS3, scanSecurityGroups, scanIAM) run against mock resource data,   *)
(* the Reporter (SortBySeverity and the output formats) and main.          *)
(*                                                                         *)
(* A Finding is the record of models.Finding without Description (a fixed  *)
(* function of the other fields); its Timestamp is the reading of the      *)
(* clock at construction, which the model does not advance.                *)
(***************************************************************************)
EXTENDS Integers, Sequences, FiniteSets, Bags, TLC

\* ------------------------------------------------------------------ bounds

\* How many run-method calls the caller makes in one behaviour.
MaxCalls == 2
\* How many findings each worker of the append harness hands to addFinding.
MaxAppends == 2

\* How long the slices handed to the Reporter by itself are.
MaxSort == 4
\* How many grants the ACL of a bucket has when the checks run by themselves.
MaxGrants == 2

\* ------------------------------------------------------- models (findings)

SeverityCritical == "CRITICAL"
SeverityHigh == "HIGH"
SeverityMedium == "MEDIUM"
SeverityLow == "LOW"

ResourceS3 == "S3_BUCKET"
ResourceSecurityGroup == "SECURITY_GROUP"
ResourceIAM == "IAM_USER"

\* time.Now() as NewFinding reads it.
Now == "now"

NewFinding(resourceID, resourceType, severity, title) ==
    [ResourceID |-> resourceID, ResourceType |-> resourceType,
     Severity |-> severity, Title |-> title, Region |-> "", Account |-> "",
     Timestamp |-> Now]

NewCriticalFinding(resourceID, resourceType, title) ==
    NewFinding(resourceID, resourceType, SeverityCritical, title)

NewHighFinding(resourceID, resourceType, title) ==
    NewFinding(resourceID, resourceType, SeverityHigh, title)

\* A NewMediumFinding with the severity spelled "Medium".
NewMediumFindingRespelled(resourceID, resourceType, title) ==
    NewFinding(resourceID, resourceType, "Medium", title)

NewMediumFinding(resourceID, resourceType, title) ==
    NewFinding(resourceID, resourceType, SeverityMedium, title)

\* ---------------------------------------------------------------- helpers

Nil == "nil"
NoHolder == "free"

RECURSIVE Concat(_)
Concat(ss) == IF ss = <<>> THEN <<>> ELSE Head(ss) \o Concat(Tail(ss))

RECURSIVE SeqBag(_)
SeqBag(s) == IF s = <<>> THEN EmptyBag ELSE SetToBag({Head(s)}) (+) SeqBag(Tail(s))

\* A filter that builds its result back to front.
RECURSIVE FilterPrepending(_, _)
FilterPrepending(s, sev) ==
    IF s = <<>> THEN <<>>
    ELSE IF Head(s).Severity = sev THEN FilterPrepending(Tail(s), sev) \o <<Head(s)>>
         ELSE FilterPrepending(Tail(s), sev)

RECURSIVE Filter(_, _)
Filter(s, sev) ==
    IF s = <<>> THEN <<>>
    ELSE IF Head(s).Severity = sev THEN <<Head(s)>> \o Filter(Tail(s), sev)
         ELSE Filter(Tail(s), sev)

\* All orders in which the elements of a finite set can be enumerated.
RECURSIVE Orders(_)
Orders(S) ==
    IF S = {} THEN {<<>>}
    ELSE UNION {{<<x>> \o rest : rest \in Orders(S \ {x})} : x \in S}

\* The sequences made of one element of each set of a sequence of sets.
RECURSIVE Products(_)
Products(sets) ==
    IF sets = <<>> THEN {<<>>}
    ELSE {a \o b : a \in Head(sets), b \in Products(Tail(sets))}

\* ------------------------------------------------------------- the checks

Checks == {"s3", "sg", "iam"}
\* The identity check first.
CheckOrderIdentityFirst == <<"iam", "s3", "sg">>

CheckOrder == <<"s3", "sg", "iam">>

AllUsersURI == "http://acs.amazonaws.com/groups/global/AllUsers"
AuthenticatedUsersURI == "http://acs.amazonaws.com/groups/global/AuthenticatedUsers"
AnyCidr == "0.0.0.0/0"

\* checkBucketEncryption: a failed lookup is reported as "not encrypted".
checkBucketEncryption(b) ==
    IF b.EncryptionErr
    THEN <<NewHighFinding(b.Name, ResourceS3, "S3 Bucket Not Encrypted")>>
    ELSE <<>>

RECURSIVE HasPublicGrant(_)
HasPublicGrant(grants) ==
    IF grants = <<>> THEN FALSE
    ELSE IF Head(grants) \in {AllUsersURI, AuthenticatedUsersURI} THEN TRUE
         ELSE HasPublicGrant(Tail(grants))

\* A checkBucketPublicAccess that goes on after a public grant: one finding
\* per public grant.
RECURSIVE PublicGrantFindings(_, _)
PublicGrantFindings(name, grants) ==
    IF grants = <<>> THEN <<>>
    ELSE (IF Head(grants) \in {AllUsersURI, AuthenticatedUsersURI}
          THEN <<NewCriticalFinding(name, ResourceS3, "S3 Bucket Publicly Accessible")>>
          ELSE <<>>) \o PublicGrantFindings(name, Tail(grants))

checkBucketPublicAccessEveryGrant(b) ==
    IF b.AclErr THEN <<>> ELSE PublicGrantFindings(b.Name, b.Grants)

\* checkBucketPublicAccess: returns at the first public grant.
checkBucketPublicAccess(b) ==
    IF b.AclErr THEN <<>>
    ELSE IF HasPublicGrant(b.Grants)
         THEN <<NewCriticalFinding(b.Name, ResourceS3, "S3 Bucket Publicly Accessible")>>
         ELSE <<>>

\* A checkBucketVersioning that takes a failed lookup for "not enabled".
checkBucketVersioningFailureReported(b) ==
    IF b.VersioningErr \/ b.Status # "Enabled"
    THEN <<NewMediumFinding(b.Name, ResourceS3, "S3 Bucket Versioning Disabled")>>
    ELSE <<>>

checkBucketVersioning(b) ==
    IF b.VersioningErr THEN <<>>
    ELSE IF b.Status # "Enabled"
         THEN <<NewMediumFinding(b.Name, ResourceS3, "S3 Bucket Versioning Disabled")>>
         ELSE <<>>

\* The loop body of scanS3 for one bucket.
BucketFindings(b) ==
    checkBucketEncryption(b) \o checkBucketPublicAccess(b) \o checkBucketVersioning(b)

\* The critical-port table of checkPublicAccess.
CriticalPorts ==
    [p \in {22, 3389, 5432, 3306, 1433, 27017, 6379} |->
        CASE p = 22 -> "SSH" [] p = 3389 -> "RDP" [] p = 5432 -> "PostgreSQL"
          [] p = 3306 -> "MySQL" [] p = 1433 -> "SQL Server"
          [] p = 27017 -> "MongoDB" [] p = 6379 -> "Redis"]

PortFinding(sgID, port) ==
    NewCriticalFinding(sgID, ResourceSecurityGroup,
                       CriticalPorts[port] \o " Port Publicly Accessible")

AllPortsFinding(sgID) ==
    NewCriticalFinding(sgID, ResourceSecurityGroup, "All Ports Publicly Accessible")

\* A checkPublicAccess whose range excludes its lower end.
checkPublicAccessAboveFrom(sgID, fromPort, toPort) ==
    LET hit == {p \in DOMAIN CriticalPorts : p > fromPort /\ p <= toPort}
        tail == IF fromPort = 0 /\ toPort = 65535 THEN <<AllPortsFinding(sgID)>> ELSE <<>>
    IN  {[i \in 1..Len(o) |-> PortFinding(sgID, o[i])] \o tail : o \in Orders(hit)}

\* checkPublicAccess: the table is a Go map, ranged over in an unspecified
\* order, so the per-port findings come in any order; the all-ports finding
\* comes last.
checkPublicAccess(sgID, fromPort, toPort) ==
    LET hit == {p \in DOMAIN CriticalPorts : p >= fromPort /\ p <= toPort}
        tail == IF fromPort = 0 /\ toPort = 65535 THEN <<AllPortsFinding(sgID)>> ELSE <<>>
    IN  {[i \in 1..Len(o) |-> PortFinding(sgID, o[i])] \o tail : o \in Orders(hit)}

\* One permission of a group: checkPublicAccess once per 0.0.0.0/0 range.
PermissionFindings(sgID, perm) ==
    LET per == [i \in 1..Len(perm.IpRanges) |->
                  IF perm.IpRanges[i] = AnyCidr
                  THEN checkPublicAccess(sgID, perm.FromPort, perm.ToPort)
                  ELSE {<<>>}]
    IN  Products(per)

checkSecurityGroupRules(sg) ==
    Products([i \in 1..Len(sg.IpPermissions) |->
                 PermissionFindings(sg.GroupId, sg.IpPermissions[i])])

\* A checkUserMFA that does not look for a login profile.
checkUserMFAWithoutProfile(u) ==
    IF u.MFAErr THEN <<>>
    ELSE IF u.MFADevices = 0
         THEN <<NewHighFinding(u.UserName, ResourceIAM, "IAM User Without MFA")>>
         ELSE <<>>

\* checkUserMFA: no login profile, or a failed device listing: no finding.
checkUserMFA(u) ==
    IF u.LoginProfileErr THEN <<>>
    ELSE IF u.MFAErr THEN <<>>
         ELSE IF u.MFADevices = 0
              THEN <<NewHighFinding(u.UserName, ResourceIAM, "IAM User Without MFA")>>
              ELSE <<>>

\* checkUserAccessKeys: a failed key listing returns; otherwise the keys are
\* read and nothing is reported.
checkUserAccessKeys(u) == IF u.AccessKeysErr THEN <<>> ELSE <<>>

UserFindings(u) == checkUserMFA(u) \o checkUserAccessKeys(u)

\* What a check hands to addFinding, in order, once its listing call has
\* succeeded: the set of the sequences it can produce.
CheckResults(t, data) ==
    CASE t = "s3" ->
           {Concat([i \in 1..Len(data.s3.items) |-> BucketFindings(data.s3.items[i])])}
      [] t = "sg" ->
           Products([i \in 1..Len(data.sg.items) |->
                        checkSecurityGroupRules(data.sg.items[i])])
      [] t = "iam" ->
           {Concat([i \in 1..Len(data.iam.items) |-> UserFindings(data.iam.items[i])])}

\* ----------------------------------------------------------------- errors

SdkError == "RequestError"

ListMessage(t) ==
    CASE t = "s3" -> "failed to list S3 buckets"
      [] t = "sg" -> "failed to describe security groups"
      [] t = "iam" -> "failed to list IAM users"

ScanMessage(t) ==
    CASE t = "s3" -> "S3 scan failed"
      [] t = "sg" -> "Security Group scan failed"
      [] t = "iam" -> "IAM scan failed"

\* fmt.Errorf("<msg>: %w", cause)
Errorf(msg, cause) == msg \o ": " \o cause

ListError(t) == Errorf(ListMessage(t), SdkError)

\* -------------------------------------------------------------- mock data

Bucket(name, encryptionErr, aclErr, grants, versioningErr, status) ==
    [Name |-> name, EncryptionErr |-> encryptionErr, AclErr |-> aclErr,
     Grants |-> grants, VersioningErr |-> versioningErr, Status |-> status]

Permission(fromPort, toPort, ipRanges) ==
    [FromPort |-> fromPort, ToPort |-> toPort, IpRanges |-> ipRanges]

Group(groupId, ipPermissions) == [GroupId |-> groupId, IpPermissions |-> ipPermissions]

User(userName, loginProfileErr, mfaErr, mfaDevices, accessKeysErr) ==
    [UserName |-> userName, LoginProfileErr |-> loginProfileErr,
     MFAErr |-> mfaErr, MFADevices |-> mfaDevices, AccessKeysErr |-> accessKeysErr]

\* What a listing call (ListBuckets, DescribeSecurityGroups, ListUsers) gives:
\* an error, or the resources.
ListFails == [err |-> TRUE, items |-> <<>>]
Listed(items) == [err |-> FALSE, items |-> items]

\* The accounts the runs are made against. Each listing call fails, or finds
\* nothing, or finds one resource with findings: an unencrypted bucket with
\* two public grants, a group open to the internet on port 22, a console
\* user without MFA.
ScanBuckets ==
    {ListFails, Listed(<<>>),
     Listed(<<Bucket("bucket-1", TRUE, FALSE, <<AllUsersURI, AuthenticatedUsersURI>>,
                     FALSE, "Enabled")>>)}

ScanGroups ==
    {ListFails, Listed(<<>>),
     Listed(<<Group("sg-1", <<Permission(22, 22, <<AnyCidr>>)>>)>>)}

ScanUsers ==
    {ListFails, Listed(<<>>), Listed(<<User("alice", FALSE, FALSE, 0, FALSE)>>)}

MockData == [s3 : ScanBuckets, sg : ScanGroups, iam : ScanUsers]

\* The default of the -region flag, and another region.
DefaultRegion == "us-east-1"
Regions == {DefaultRegion, "eu-west-1"}
Scanners == {"A", "B"}

\* ------------------------------------------------------------------ state

VARIABLES
    region,     \* Scanner.region, the same for every scanner built
    api,        \* the mock account: what each listing call gives
    findings,   \* Scanner.findings, per scanner
    mu,         \* Scanner.mu, per scanner: its holder, or NoHolder
    calls,      \* the run-method calls made so far: scanner, method, result
    cpc,        \* where the caller is inside Scan / ScanConcurrent
    k,          \* which check Scan is at / ScanConcurrent launches next
    wg,         \* the WaitGroup counter of ScanConcurrent
    errChan,    \* the buffered error channel of ScanConcurrent
    pc,         \* per check: where its execution is
    pending,    \* per check: the findings it has still to hand to addFinding
    cur,        \* per check: addFinding's argument
    tmp,        \* per check: the slice value append has read
    terr,       \* per check: the error its scan function returned
    reads,      \* how many calls of a read accessor have been made
    rd,         \* the last call of a read accessor and what it returned
    flags,      \* main: the command-line flags
    mpc,        \* main: where it is
    exitCode,   \* main: the exit status of the process, once it has exited
    out,        \* main: what the Reporter has written, in order
    rep         \* main: the scanner whose slice the Reporter holds

vars == <<region, api, findings, mu, calls, cpc, k, wg, errChan,
          pc, pending, cur, tmp, terr, reads, rd,
          flags, mpc, exitCode, out, rep>>

\* What no run ever changes, and what only the read accessors change.
config == <<region, api>>
reader == <<reads, rd>>
\* What only main changes.
program == <<flags, mpc, exitCode, out, rep>>

Pending == "pending"
NoRead == [op |-> "none", scanner |-> "", severity |-> "", result |-> <<>>]
NoFinding == NewFinding("", "", "", "")
ErrChanCap == 3

\* The call in progress (or the last one made) and the scanner it is on.
Current == calls[Len(calls)]
Self == Current.scanner

IdleTasks ==
    /\ pc = [t \in Checks |-> "idle"]
    /\ pending = [t \in Checks |-> <<>>]
    /\ cur = [t \in Checks |-> NoFinding]
    /\ tmp = [t \in Checks |-> <<>>]
    /\ terr = [t \in Checks |-> Nil]

\* The scanner used as a library: no main.
NoFlags == [output |-> "", file |-> "", concurrent |-> FALSE]
NoExit == -1
NoProgram ==
    /\ flags = NoFlags
    /\ mpc = "off"
    /\ exitCode = NoExit
    /\ out = <<>>
    /\ rep = ""

\* Every scanner as NewScanner(region) leaves it: an empty store.
Init ==
    /\ region = DefaultRegion
    /\ api \in MockData
    /\ findings = [s \in Scanners |-> <<>>]
    /\ mu = [s \in Scanners |-> NoHolder]
    /\ calls = <<>>
    /\ cpc = "idle"
    /\ k = 1
    /\ wg = 0
    /\ errChan = <<>>
    /\ IdleTasks
    /\ reads = 0
    /\ rd = NoRead
    /\ NoProgram

\* ------------------------------------------------------------- addFinding

\* A Lock that never waits (addFinding without the mutex).
MutexIgnored(s) == TRUE

\* s.mu.Lock() returns only when nobody holds the mutex.
MutexFree(s) == mu[s] = NoHolder

\* addFinding leaving the region the check set.
KeepRegion(finding, r) == finding

\* finding.Region = s.region
SetRegion(finding, r) == [finding EXCEPT !.Region = r]

\* addFinding is entered with the next finding of the check; Lock.
AddLock(t) ==
    /\ pc[t] = "run"
    /\ pending[t] # <<>>
    /\ MutexFree(Self)
    /\ mu' = [mu EXCEPT ![Self] = t]
    /\ cur' = [cur EXCEPT ![t] = Head(pending[t])]
    /\ pending' = [pending EXCEPT ![t] = Tail(pending[t])]
    /\ pc' = [pc EXCEPT ![t] = "add_region"]
    /\ UNCHANGED <<config, findings, calls, cpc, k, wg, errChan, tmp, terr, reader, program>>

AddRegion(t) ==
    /\ pc[t] = "add_region"
    /\ cur' = [cur EXCEPT ![t] = SetRegion(cur[t], region)]
    /\ pc' = [pc EXCEPT ![t] = "add_read"]
    /\ UNCHANGED <<config, findings, mu, calls, cpc, k, wg, errChan, pending, tmp, terr, reader, program>>

\* append(s.findings, finding) reads the slice ...
AddRead(t) ==
    /\ pc[t] = "add_read"
    /\ tmp' = [tmp EXCEPT ![t] = findings[Self]]
    /\ pc' = [pc EXCEPT ![t] = "add_write"]
    /\ UNCHANGED <<config, findings, mu, calls, cpc, k, wg, errChan, pending, cur, terr, reader, program>>

\* An addFinding that puts the finding in front of the slice.
AddWriteInFront(t) ==
    /\ pc[t] = "add_write"
    /\ findings' = [findings EXCEPT ![Self] = <<cur[t]>> \o tmp[t]]
    /\ pc' = [pc EXCEPT ![t] = "add_unlock"]
    /\ UNCHANGED <<config, mu, calls, cpc, k, wg, errChan, pending, cur, tmp, terr, reader, program>>

\* ... and the assignment stores the extended slice.
AddWrite(t) ==
    /\ pc[t] = "add_write"
    /\ findings' = [findings EXCEPT ![Self] = Append(tmp[t], cur[t])]
    /\ pc' = [pc EXCEPT ![t] = "add_unlock"]
    /\ UNCHANGED <<config, mu, calls, cpc, k, wg, errChan, pending, cur, tmp, terr, reader, program>>

\* The deferred Unlock: addFinding returns, its locals are gone, and the
\* check goes on.
AddUnlock(t) ==
    /\ pc[t] = "add_unlock"
    /\ mu' = [mu EXCEPT ![Self] = NoHolder]
    /\ cur' = [cur EXCEPT ![t] = NoFinding]
    /\ tmp' = [tmp EXCEPT ![t] = <<>>]
    /\ pc' = [pc EXCEPT ![t] = "run"]
    /\ UNCHANGED <<config, findings, calls, cpc, k, wg, errChan, pending, terr, reader, program>>

\* ----------------------------------------------------------- a check runs

\* Where a check's return leads: back into Scan, or on in the goroutine of
\* ScanConcurrent, which sends an error and is done.
Returned(err) ==
    IF Current.method = "ScanConcurrent"
    THEN IF err # Nil THEN "send" ELSE "exit"
    ELSE "ret"

\* The listing call: it fails and the check returns the wrapped error, or it
\* succeeds and the check goes through the resources.
CheckList(t) ==
    /\ pc[t] = "list"
    /\ IF api[t].err
       THEN /\ terr' = [terr EXCEPT ![t] = ListError(t)]
            /\ pc' = [pc EXCEPT ![t] = Returned(ListError(t))]
            /\ UNCHANGED pending
       ELSE /\ \E r \in CheckResults(t, api) : pending' = [pending EXCEPT ![t] = r]
            /\ pc' = [pc EXCEPT ![t] = "run"]
            /\ UNCHANGED terr
    /\ UNCHANGED <<config, findings, mu, calls, cpc, k, wg, errChan, cur, tmp, reader, program>>

\* A check that, its loops over, returns an error when a lookup on one of
\* its buckets had failed.
CheckReturnLookupError(t) ==
    /\ pc[t] = "run"
    /\ pending[t] = <<>>
    /\ LET err == IF t = "s3" /\ \E i \in 1..Len(api.s3.items) : api.s3.items[i].EncryptionErr
                  THEN Errorf("failed to get bucket encryption", SdkError)
                  ELSE Nil
       IN  /\ terr' = [terr EXCEPT ![t] = err]
           /\ pc' = [pc EXCEPT ![t] = Returned(err)]
    /\ UNCHANGED <<config, findings, mu, calls, cpc, k, wg, errChan, pending, cur, tmp, reader, program>>

\* The loops are over: return nil.
CheckReturn(t) ==
    /\ pc[t] = "run"
    /\ pending[t] = <<>>
    /\ pc' = [pc EXCEPT ![t] = Returned(Nil)]
    /\ UNCHANGED <<config, findings, mu, calls, cpc, k, wg, errChan, pending, cur, tmp, terr, reader, program>>

\* ------------------------------------------------------------------- Scan

\* A run method is entered: the locals of the call before are gone.
Enter(s, method) ==
    /\ cpc = "idle"
    /\ Len(calls) < MaxCalls
    /\ calls' = Append(calls, [scanner |-> s, method |-> method, ret |-> Pending])
    /\ pending' = [t \in Checks |-> <<>>]
    /\ cur' = [t \in Checks |-> NoFinding]
    /\ tmp' = [t \in Checks |-> <<>>]
    /\ terr' = [t \in Checks |-> Nil]
    /\ k' = 1
    /\ wg' = 0
    /\ errChan' = <<>>

\* The method returns e to its caller.
Return(e) ==
    /\ calls' = [calls EXCEPT ![Len(calls)].ret = e]
    /\ cpc' = "idle"

\* Scan() is called on scanner s and calls scanS3.
CallScan(s) ==
    /\ Enter(s, "Scan")
    /\ cpc' = "scan"
    /\ pc' = [t \in Checks |-> IF t = CheckOrder[1] THEN "list" ELSE "idle"]
    /\ UNCHANGED <<config, findings, mu, reader, program>>

\* Scan emptying the store when a check fails.
ScanFailRollback ==
    /\ cpc = "scan"
    /\ pc[CheckOrder[k]] = "ret"
    /\ terr[CheckOrder[k]] # Nil
    /\ Return(Errorf(ScanMessage(CheckOrder[k]), terr[CheckOrder[k]]))
    /\ findings' = [findings EXCEPT ![Self] = <<>>]
    /\ UNCHANGED <<config, mu, k, wg, errChan, pc, pending, cur, tmp, terr, reader, program>>

\* The check Scan called has returned an error: Scan returns it, wrapped
\* with the name of the check.
ScanFail ==
    /\ cpc = "scan"
    /\ pc[CheckOrder[k]] = "ret"
    /\ terr[CheckOrder[k]] # Nil
    /\ Return(Errorf(ScanMessage(CheckOrder[k]), terr[CheckOrder[k]]))
    /\ UNCHANGED <<config, findings, mu, k, wg, errChan, pc, pending, cur, tmp, terr, reader, program>>

\* Scan going on to the next check whatever the check before returned.
ScanContinues ==
    /\ cpc = "scan"
    /\ pc[CheckOrder[k]] = "ret"
    /\ k < Len(CheckOrder)
    /\ k' = k + 1
    /\ pc' = [pc EXCEPT ![CheckOrder[k + 1]] = "list"]
    /\ UNCHANGED <<config, findings, mu, calls, cpc, wg, errChan, pending, cur, tmp, terr, reader, program>>

\* The check has returned nil: Scan calls the next check.
ScanNext ==
    /\ cpc = "scan"
    /\ pc[CheckOrder[k]] = "ret"
    /\ terr[CheckOrder[k]] = Nil
    /\ k < Len(CheckOrder)
    /\ k' = k + 1
    /\ pc' = [pc EXCEPT ![CheckOrder[k + 1]] = "list"]
    /\ UNCHANGED <<config, findings, mu, calls, cpc, wg, errChan, pending, cur, tmp, terr, reader, program>>

\* The last check has returned nil: Scan returns nil.
ScanDone ==
    /\ cpc = "scan"
    /\ pc[CheckOrder[k]] = "ret"
    /\ terr[CheckOrder[k]] = Nil
    /\ k = Len(CheckOrder)
    /\ Return(Nil)
    /\ UNCHANGED <<config, findings, mu, k, wg, errChan, pc, pending, cur, tmp, terr, reader, program>>

\* --------------------------------------------------------- ScanConcurrent

\* ScanConcurrent() is called on scanner s: the WaitGroup and the channel.
CallScanConcurrent(s) ==
    /\ Enter(s, "ScanConcurrent")
    /\ cpc' = "go"
    /\ pc' = [t \in Checks |-> "idle"]
    /\ UNCHANGED <<config, findings, mu, reader, program>>

\* wg.Add(1); go func() { ... }(): the goroutine of the next check exists.
Launch ==
    /\ cpc = "go"
    /\ wg' = wg + 1
    /\ pc' = [pc EXCEPT ![CheckOrder[k]] = "list"]
    /\ IF k < Len(CheckOrder)
       THEN k' = k + 1 /\ UNCHANGED cpc
       ELSE cpc' = "wait" /\ UNCHANGED k
    /\ UNCHANGED <<config, findings, mu, calls, errChan, pending, cur, tmp, terr, reader, program>>

\* A send on an unbuffered channel: it completes only when the receiver is
\* at its receive, which ScanConcurrent reaches after wg.Wait().
TaskSendUnbuffered(t) ==
    /\ pc[t] = "send"
    /\ cpc = "wait"
    /\ wg = 0
    /\ errChan' = Append(errChan, terr[t])
    /\ pc' = [pc EXCEPT ![t] = "exit"]
    /\ UNCHANGED <<config, findings, mu, calls, cpc, k, wg, pending, cur, tmp, terr, reader, program>>

\* errChan <- err: the send blocks while the buffer is full.
TaskSend(t) ==
    /\ pc[t] = "send"
    /\ Len(errChan) < ErrChanCap
    /\ errChan' = Append(errChan, terr[t])
    /\ pc' = [pc EXCEPT ![t] = "exit"]
    /\ UNCHANGED <<config, findings, mu, calls, cpc, k, wg, pending, cur, tmp, terr, reader, program>>

\* The deferred wg.Done().
TaskDone(t) ==
    /\ pc[t] = "exit"
    /\ wg' = wg - 1
    /\ pc' = [pc EXCEPT ![t] = "done"]
    /\ UNCHANGED <<config, findings, mu, calls, cpc, k, errChan, pending, cur, tmp, terr, reader, program>>

\* A wait that is over as soon as an error has arrived.
WaitDoneOrError == wg = 0 \/ errChan # <<>>

\* A wait for the goroutines launched first only.
WaitDoneButLast == wg <= 1

\* wg.Wait() returns when the counter is zero.
WaitDone == wg = 0

\* Returning the error received last.
LastError(ch) == IF ch = <<>> THEN Nil ELSE ch[Len(ch)]

\* The range over the closed channel returns the first error it receives.
FirstError(ch) == IF ch = <<>> THEN Nil ELSE Head(ch)

\* ScanConcurrent emptying the store when it returns an error.
WaitReturnRollback ==
    /\ cpc = "wait"
    /\ wg = 0
    /\ Return(IF errChan = <<>> THEN Nil ELSE Head(errChan))
    /\ errChan' = IF errChan = <<>> THEN <<>> ELSE Tail(errChan)
    /\ findings' = IF errChan = <<>> THEN findings ELSE [findings EXCEPT ![Self] = <<>>]
    /\ UNCHANGED <<config, mu, k, wg, pc, pending, cur, tmp, terr, reader, program>>

\* wg.Wait(); close(errChan); the range loop; return.
WaitReturn ==
    /\ cpc = "wait"
    /\ WaitDone
    /\ Return(FirstError(errChan))
    /\ errChan' = IF errChan = <<>> THEN <<>> ELSE Tail(errChan)
    /\ UNCHANGED <<config, findings, mu, k, wg, pc, pending, cur, tmp, terr, reader, program>>

\* ------------------------------------------------------ the read accessors

\* How many calls of GetFindings / GetFindingsBySeverity a behaviour makes.
MaxReads == 1

Severities == {SeverityCritical, SeverityHigh, SeverityMedium, SeverityLow}

\* What reading s.findings can give. Neither accessor locks s.mu, so the
\* read races with the store of an append that has read the slice and not
\* yet written it back: it sees the old slice, the new one, or a torn header
\* (the old array with the new length: an element that was never written).
SliceRead(s) ==
    {findings[s]}
    \cup UNION {{Append(tmp[t], cur[t]), Append(findings[s], NoFinding)} :
                  t \in {u \in Checks : pc[u] = "add_write" /\ Self = s}}

\* GetFindings returns the slice itself.
GetFindings(s) ==
    /\ reads < MaxReads
    /\ reads' = reads + 1
    /\ \E v \in SliceRead(s) :
          rd' = [op |-> "GetFindings", scanner |-> s, severity |-> "", result |-> v]
    /\ UNCHANGED <<config, findings, mu, calls, cpc, k, wg, errChan, pc, pending, cur, tmp, terr, program>>

\* GetFindingsBySeverity ranges over the slice it read and returns a new
\* slice of the findings whose Severity matches.
GetFindingsBySeverity(s, severity) ==
    /\ reads < MaxReads
    /\ reads' = reads + 1
    /\ \E v \in SliceRead(s) :
          rd' = [op |-> "GetFindingsBySeverity", scanner |-> s,
                 severity |-> severity, result |-> Filter(v, severity)]
    /\ UNCHANGED <<config, findings, mu, calls, cpc, k, wg, errChan, pc, pending, cur, tmp, terr, program>>

\* GetCriticalFindings
GetCriticalFindings(s) == GetFindingsBySeverity(s, SeverityCritical)

\* ------------------------------------------------------ the specification

Task(t) ==
    \/ CheckList(t)
    \/ AddLock(t)
    \/ AddRegion(t)
    \/ AddRead(t)
    \/ AddWrite(t)
    \/ AddUnlock(t)
    \/ CheckReturn(t)
    \/ TaskSend(t)
    \/ TaskDone(t)

\* A step inside a run method.
Step ==
    \/ ScanFail
    \/ ScanNext
    \/ ScanDone
    \/ Launch
    \/ WaitReturn
    \/ \E t \in Checks : Task(t)

\* The caller calls run methods, one after the other, on any scanner.
Next ==
    \/ \E s \in Scanners : CallScan(s)
    \/ \E s \in Scanners : CallScanConcurrent(s)
    \/ Step

Spec == Init /\ [][Next]_vars


\* One run, as main makes it, with a caller of the read accessors running
\* beside it.
NextRead ==
    \/ \E s \in Scanners : calls = <<>> /\ CallScan(s)
    \/ \E s \in Scanners : calls = <<>> /\ CallScanConcurrent(s)
    \/ Step
    \/ \E s \in Scanners : GetFindings(s)
    \/ \E s \in Scanners, severity \in Severities : GetFindingsBySeverity(s, severity)

SpecRead == Init /\ [][NextRead]_vars

\* One call of ScanConcurrent in which the caller and every goroutine that
\* can take a step eventually takes one: the scheduler starves no runnable
\* goroutine, and every call a check makes returns.
NextLive ==
    \/ \E s \in Scanners : calls = <<>> /\ CallScanConcurrent(s)
    \/ Launch
    \/ WaitReturn
    \/ \E t \in Checks : Task(t)

Fairness ==
    /\ WF_vars(Launch)
    /\ WF_vars(WaitReturn)
    /\ \A t \in Checks : WF_vars(Task(t))

SpecLive == Init /\ [][NextLive]_vars /\ Fairness

\* ------------------------------------------------------ the store by itself

\* Three workers, each handing MaxAppends findings of its own to addFinding
\* of one scanner; the findings of a worker come with any region set.
PriorRegions == {"", "eu-west-1"}

WorkerFindings(t, prior) ==
    [i \in 1..MaxAppends |->
        [NewFinding(t \o "-" \o ToString(i), "WORKER", SeverityLow, "appended")
            EXCEPT !.Region = prior]]

InitStore ==
    /\ region \in Regions
    /\ api = [s3 |-> Listed(<<>>), sg |-> Listed(<<>>), iam |-> Listed(<<>>)]
    /\ findings = [s \in Scanners |-> <<>>]
    /\ mu = [s \in Scanners |-> NoHolder]
    /\ calls = <<[scanner |-> "A", method |-> "workers", ret |-> Pending]>>
    /\ cpc = "workers"
    /\ k = 1
    /\ wg = 0
    /\ errChan = <<>>
    /\ pc = [t \in Checks |-> "run"]
    /\ \E prior \in [Checks -> PriorRegions] :
          pending = [t \in Checks |-> WorkerFindings(t, prior[t])]
    /\ cur = [t \in Checks |-> NoFinding]
    /\ tmp = [t \in Checks |-> <<>>]
    /\ terr = [t \in Checks |-> Nil]
    /\ reads = 0
    /\ rd = NoRead
    /\ NoProgram

NextStore ==
    \E t \in Checks :
        \/ AddLock(t)
        \/ AddRegion(t)
        \/ AddRead(t)
        \/ AddWrite(t)
        \/ AddUnlock(t)
        \/ CheckReturn(t)

SpecStore == InitStore /\ [][NextStore]_vars

\* ------------------------------------------------------------ the Reporter

\* A severityOrder with MEDIUM ahead of HIGH.
severityOrderSwapped(severity) ==
    CASE severity = SeverityCritical -> 0
      [] severity = SeverityHigh -> 2
      [] severity = SeverityMedium -> 1
      [] severity = SeverityLow -> 3
      [] OTHER -> 0

\* severityOrder of SortBySeverity: a Go map, so a severity that is not a key
\* reads as 0.
severityOrder(severity) ==
    CASE severity = SeverityCritical -> 0
      [] severity = SeverityHigh -> 1
      [] severity = SeverityMedium -> 2
      [] severity = SeverityLow -> 3
      [] OTHER -> 0

\* The less function handed to sort.Slice.
less(a, b) == severityOrder(a.Severity) < severityOrder(b.Severity)

\* Every place of the slice overwritten with the element that sorts first.
PermutedClobbering(fs, o) == [i \in 1..Len(o) |-> fs[o[1]]]

\* The elements of fs taken in the order o of their indices.
Permuted(fs, o) == [i \in 1..Len(o) |-> fs[o[i]]]

\* sort.Slice(r.findings, less): the slice is permuted in place so that no
\* element is less than one before it. sort.Slice is not a stable sort, so the
\* order among elements that compare equal is any.
SortBySeverity(fs) ==
    {Permuted(fs, o) : o \in {q \in Orders(1..Len(fs)) :
        \A i, j \in 1..Len(fs) : i < j => ~less(fs[q[j]], fs[q[i]])}}

\* groupBySeverity, read at one severity.
groupBySeverity(fs, severity) == Filter(fs, severity)

\* printSummary: the total and the size of each of the four groups.
printSummary(fs) ==
    [Total |-> Len(fs),
     Critical |-> Len(groupBySeverity(fs, SeverityCritical)),
     High |-> Len(groupBySeverity(fs, SeverityHigh)),
     Medium |-> Len(groupBySeverity(fs, SeverityMedium)),
     Low |-> Len(groupBySeverity(fs, SeverityLow))]

\* What PrintConsole prints of one finding, and PrintConsole: the groups of
\* the four severities, CRITICAL first, then the summary.
ConsoleEntry(f) ==
    [Title |-> f.Title, ResourceID |-> f.ResourceID,
     ResourceType |-> f.ResourceType, Region |-> f.Region]

PrintConsole(fs) ==
    LET shown == groupBySeverity(fs, SeverityCritical) \o groupBySeverity(fs, SeverityHigh)
                 \o groupBySeverity(fs, SeverityMedium) \o groupBySeverity(fs, SeverityLow)
    IN  [op |-> "PrintConsole",
         body |-> [i \in 1..Len(shown) |-> ConsoleEntry(shown[i])],
         summary |-> printSummary(fs)]

\* A row of PrintTable, and PrintTable: one row per finding, then the summary.
TableRow(f) == <<f.Severity, f.ResourceType, f.ResourceID, f.Title>>

PrintTable(fs) ==
    [op |-> "PrintTable",
     body |-> [i \in 1..Len(fs) |-> TableRow(fs[i])],
     summary |-> printSummary(fs)]

\* json.MarshalIndent of one finding (by the json tags of the struct), and
\* GenerateJSON: the array of them, when json.MarshalIndent returns no error.
MarshalFinding(f) ==
    [resource_id |-> f.ResourceID, resource_type |-> f.ResourceType,
     severity |-> f.Severity, title |-> f.Title, region |-> f.Region,
     account |-> f.Account, timestamp |-> f.Timestamp]

GenerateJSON(fs) == [i \in 1..Len(fs) |-> MarshalFinding(fs[i])]

\* fmt.Println(jsonStr) and os.WriteFile(filename, jsonStr).
Println(jsonStr) == [op |-> "Println", body |-> jsonStr]
WriteFile(filename, jsonStr) == [op |-> "WriteFile", body |-> jsonStr, file |-> filename]

\* -------------------------------------------------------------------- main

\* The command lines main is run with: each output format and one that is
\* none of them, with and without -file, with and without -concurrent.
Outputs == {"console", "table", "json", "xml"}
Files == {"", "report.json"}
FlagSets == [output : Outputs, file : Files, concurrent : BOOLEAN]

\* The scanner main builds.
MainScanner == "A"

\* The slice the Reporter holds: NewReporter keeps the slice it is handed,
\* which shares its array with the store of the scanner it came from.
ReporterFindings == findings[rep]

\* os.Exit(code), or main returning (code 0).
Exit(code) ==
    /\ mpc' = "exited"
    /\ exitCode' = code

\* s, err := scanner.NewScanner(*region): the session is created, or not.
MainNewScanner ==
    /\ mpc = "start"
    /\ \E sessionErr \in BOOLEAN :
          IF sessionErr THEN Exit(1) ELSE mpc' = "scan" /\ UNCHANGED exitCode
    /\ UNCHANGED <<config, findings, mu, calls, cpc, k, wg, errChan,
                   pc, pending, cur, tmp, terr, reader, flags, out, rep>>

\* err = s.ScanConcurrent() or err = s.Scan(), by the -concurrent flag.
MainScan ==
    /\ mpc = "scan"
    /\ calls = <<>>
    /\ IF flags.concurrent THEN CallScanConcurrent(MainScanner) ELSE CallScan(MainScanner)

\* main going on to the report whatever the run returned.
MainScanReturnedUnchecked ==
    /\ mpc = "scan"
    /\ calls # <<>>
    /\ Current.ret # Pending
    /\ mpc' = "findings"
    /\ UNCHANGED <<config, findings, mu, calls, cpc, k, wg, errChan,
                   pc, pending, cur, tmp, terr, reader, flags, exitCode, out, rep>>

\* if err != nil { os.Exit(1) }
MainScanReturned ==
    /\ mpc = "scan"
    /\ calls # <<>>
    /\ Current.ret # Pending
    /\ IF Current.ret # Nil THEN Exit(1) ELSE mpc' = "findings" /\ UNCHANGED exitCode
    /\ UNCHANGED <<config, findings, mu, calls, cpc, k, wg, errChan,
                   pc, pending, cur, tmp, terr, reader, flags, out, rep>>

\* findings := s.GetFindings(); rep := reporter.NewReporter(findings)
MainGetFindings ==
    /\ mpc = "findings"
    /\ reads' = reads + 1
    /\ \E v \in SliceRead(MainScanner) :
          rd' = [op |-> "GetFindings", scanner |-> MainScanner, severity |-> "", result |-> v]
    /\ rep' = MainScanner
    /\ mpc' = "sort"
    /\ UNCHANGED <<config, findings, mu, calls, cpc, k, wg, errChan,
                   pc, pending, cur, tmp, terr, flags, exitCode, out>>

\* A sort that rewrites each severity in the spelling of the summary line.
SortRespellsSeverity(fs) ==
    {[i \in 1..Len(sorted) |->
        [sorted[i] EXCEPT !.Severity =
            CASE @ = SeverityCritical -> "Critical" [] @ = SeverityHigh -> "High"
              [] @ = SeverityMedium -> "Medium" [] OTHER -> "Low"]] :
     sorted \in SortBySeverity(fs)}

\* rep.SortBySeverity() with such a sort.
MainSortRespelling ==
    /\ mpc = "sort"
    /\ \E sorted \in SortRespellsSeverity(ReporterFindings) :
          findings' = [findings EXCEPT ![rep] = sorted]
    /\ mpc' = "output"
    /\ UNCHANGED <<config, mu, calls, cpc, k, wg, errChan,
                   pc, pending, cur, tmp, terr, reader, flags, exitCode, out, rep>>

\* rep.SortBySeverity(): the sort is in place, in the array of the store.
MainSort ==
    /\ mpc = "sort"
    /\ \E sorted \in SortBySeverity(ReporterFindings) :
          findings' = [findings EXCEPT ![rep] = sorted]
    /\ mpc' = "output"
    /\ UNCHANGED <<config, mu, calls, cpc, k, wg, errChan,
                   pc, pending, cur, tmp, terr, reader, flags, exitCode, out, rep>>

\* What an output step that wrote w leaves.
Written(w) ==
    /\ out' = Append(out, w)
    /\ mpc' = "critical"
    /\ UNCHANGED <<config, findings, mu, calls, cpc, k, wg, errChan,
                   pc, pending, cur, tmp, terr, reader, flags, exitCode, rep>>

\* What an output step that exits instead leaves.
Failed ==
    /\ Exit(1)
    /\ UNCHANGED <<config, findings, mu, calls, cpc, k, wg, errChan,
                   pc, pending, cur, tmp, terr, reader, flags, out, rep>>

\* case "console"
MainPrintConsole ==
    /\ mpc = "output"
    /\ flags.output = "console"
    /\ Written(PrintConsole(ReporterFindings))

\* case "table"
MainPrintTable ==
    /\ mpc = "output"
    /\ flags.output = "table"
    /\ Written(PrintTable(ReporterFindings))

\* case "json" with no -file: GenerateJSON, whose json.MarshalIndent
\* succeeds or not, then Println.
MainPrintJSON ==
    /\ mpc = "output"
    /\ flags.output = "json"
    /\ flags.file = ""
    /\ \E marshalErr \in BOOLEAN :
          IF marshalErr THEN Failed
          ELSE Written(Println(GenerateJSON(ReporterFindings)))

\* case "json" with -file: SaveJSON, whose GenerateJSON and os.WriteFile
\* each succeed or not.
MainSaveJSON ==
    /\ mpc = "output"
    /\ flags.output = "json"
    /\ flags.file # ""
    /\ \E marshalErr, writeErr \in BOOLEAN :
          IF marshalErr \/ writeErr THEN Failed
          ELSE Written(WriteFile(flags.file, GenerateJSON(ReporterFindings)))

\* default: unknown output format.
MainUnknownFormat ==
    /\ mpc = "output"
    /\ flags.output \notin {"console", "table", "json"}
    /\ Failed

\* main returning without looking for critical findings.
MainReturns ==
    /\ mpc = "critical"
    /\ Exit(0)
    /\ UNCHANGED <<config, findings, mu, calls, cpc, k, wg, errChan,
                   pc, pending, cur, tmp, terr, reader, flags, out, rep>>

\* critical := s.GetCriticalFindings(); if len(critical) > 0 { os.Exit(1) }
MainCritical ==
    /\ mpc = "critical"
    /\ reads' = reads + 1
    /\ \E v \in SliceRead(MainScanner) :
          /\ rd' = [op |-> "GetFindingsBySeverity", scanner |-> MainScanner,
                    severity |-> SeverityCritical, result |-> Filter(v, SeverityCritical)]
          /\ IF Len(Filter(v, SeverityCritical)) > 0 THEN Exit(1) ELSE Exit(0)
    /\ UNCHANGED <<config, findings, mu, calls, cpc, k, wg, errChan,
                   pc, pending, cur, tmp, terr, flags, out, rep>>

\* The process: main on one command line against one account.
InitMain ==
    /\ region = DefaultRegion
    /\ api \in MockData
    /\ findings = [s \in Scanners |-> <<>>]
    /\ mu = [s \in Scanners |-> NoHolder]
    /\ calls = <<>>
    /\ cpc = "idle"
    /\ k = 1
    /\ wg = 0
    /\ errChan = <<>>
    /\ IdleTasks
    /\ reads = 0
    /\ rd = NoRead
    /\ flags \in FlagSets
    /\ mpc = "start"
    /\ exitCode = NoExit
    /\ out = <<>>
    /\ rep = ""

NextMain ==
    \/ MainNewScanner
    \/ MainScan
    \/ Step
    \/ MainScanReturned
    \/ MainGetFindings
    \/ MainSort
    \/ MainPrintConsole
    \/ MainPrintTable
    \/ MainPrintJSON
    \/ MainSaveJSON
    \/ MainUnknownFormat
    \/ MainCritical

SpecMain == InitMain /\ [][NextMain]_vars

\* --------------------------------------------------- the Reporter by itself

\* The slices SortBySeverity is applied to: up to MaxSort findings, told
\* apart by their resource id, of any of the four severities in any order.
SortInput(severities) ==
    [i \in 1..Len(severities) |->
        SetRegion(NewFinding("resource-" \o ToString(i), ResourceS3, severities[i], "finding"),
                  DefaultRegion)]

SortInputs == {SortInput(sv) : sv \in UNION {[1..n -> Severities] : n \in 0..MaxSort}}

\* A Reporter built on the store of a scanner whose run has returned.
InitSort ==
    /\ region = DefaultRegion
    /\ api = [s3 |-> Listed(<<>>), sg |-> Listed(<<>>), iam |-> Listed(<<>>)]
    /\ \E fs \in SortInputs :
          /\ findings = [s \in Scanners |-> IF s = MainScanner THEN fs ELSE <<>>]
          /\ rd = [op |-> "GetFindings", scanner |-> MainScanner, severity |-> "", result |-> fs]
    /\ mu = [s \in Scanners |-> NoHolder]
    /\ calls = <<[scanner |-> MainScanner, method |-> "Scan", ret |-> Nil]>>
    /\ cpc = "idle"
    /\ k = 1
    /\ wg = 0
    /\ errChan = <<>>
    /\ IdleTasks
    /\ reads = 1
    /\ flags = [output |-> "console", file |-> "", concurrent |-> FALSE]
    /\ mpc = "sort"
    /\ exitCode = NoExit
    /\ out = <<>>
    /\ rep = MainScanner

NextSort == MainSort

SpecSort == InitSort /\ [][NextSort]_vars

\* ---------------------------------------------------- the checks by themselves

\* The ACLs GetBucketAcl returns: up to MaxGrants grants, each to one of
\* the two public groups, to another group, or to a grantee with no URI.
NoURI == ""
GrantURIs ==
    {AllUsersURI, AuthenticatedUsersURI, "http://acs.amazonaws.com/groups/s3/LogDelivery", NoURI}
GrantLists == UNION {[1..n -> GrantURIs] : n \in 0..MaxGrants}

\* One bucket, with each answer of the three lookups made on it: the
\* encryption lookup fails or not; the ACL lookup fails or returns grants;
\* the versioning lookup fails or returns a status.
CheckedBuckets ==
    {Bucket("bucket-1", encryptionErr, acl.err, acl.grants, versioning.err, versioning.status) :
        encryptionErr \in BOOLEAN,
        acl \in {[err |-> TRUE, grants |-> <<>>]} \cup {[err |-> FALSE, grants |-> g] : g \in GrantLists},
        versioning \in {[err |-> TRUE, status |-> ""]}
                       \cup {[err |-> FALSE, status |-> st] : st \in {"Enabled", "Suspended", ""}}}

\* One ingress rule: the port ranges around the ends of the table and of
\* the all-ports range, open to the internet; and rules with another source.
PortRanges ==
    {<<0, 65535>>, <<0, 1433>>, <<27017, 65535>>, <<22, 22>>, <<23, 3388>>,
     <<3389, 5432>>, <<80, 443>>, <<6379, 6379>>}
PrivateCidr == "10.0.0.0/8"
CheckedRules ==
    {Permission(r[1], r[2], <<AnyCidr>>) : r \in PortRanges}
    \cup {Permission(0, 65535, <<PrivateCidr>>), Permission(22, 22, <<PrivateCidr, AnyCidr>>)}

\* One user, with each answer of the three lookups made on it: no login
\* profile (with or without an MFA device); a failed device listing; zero,
\* one or two MFA devices; the key listing fails or not.
CheckedUsers ==
    UNION {{User("alice", TRUE, FALSE, 0, keysErr), User("alice", TRUE, FALSE, 1, keysErr),
            User("alice", FALSE, TRUE, 0, keysErr)}
           \cup {User("alice", FALSE, FALSE, n, keysErr) : n \in 0..2} : keysErr \in BOOLEAN}

\* Two buckets: the first with each combination of failing lookups, the
\* second unencrypted, public and without a versioning status.
BucketPairs ==
    {<<Bucket("bucket-1", encryptionErr, aclErr, IF aclErr THEN <<>> ELSE <<AllUsersURI>>,
              versioningErr, IF versioningErr THEN "" ELSE "Suspended"),
       Bucket("bucket-2", TRUE, FALSE, <<AuthenticatedUsersURI>>, FALSE, "")>> :
        encryptionErr \in BOOLEAN, aclErr \in BOOLEAN, versioningErr \in BOOLEAN}

\* Two users: the first any of the above, the second with console access
\* and no MFA device.
UserPairs == {<<u, User("bob", FALSE, FALSE, 0, FALSE)>> : u \in CheckedUsers}

\* The accounts: one resource, or two, of one kind and nothing of the other
\* kinds; and the accounts in which listing calls fail.
CheckedAccounts ==
    {[s3 |-> Listed(<<b>>), sg |-> Listed(<<>>), iam |-> Listed(<<>>)] : b \in CheckedBuckets}
    \cup {[s3 |-> Listed(<<>>), sg |-> Listed(<<Group("sg-1", <<p>>)>>), iam |-> Listed(<<>>)] :
            p \in CheckedRules}
    \cup {[s3 |-> Listed(<<>>), sg |-> Listed(<<>>), iam |-> Listed(<<u>>)] : u \in CheckedUsers}
    \cup {[s3 |-> Listed(bs), sg |-> Listed(<<>>), iam |-> Listed(<<>>)] : bs \in BucketPairs}
    \cup {[s3 |-> Listed(<<>>), sg |-> Listed(<<>>), iam |-> Listed(us)] : us \in UserPairs}
    \cup MockData

InitChecks ==
    /\ region = DefaultRegion
    /\ api \in CheckedAccounts
    /\ findings = [s \in Scanners |-> <<>>]
    /\ mu = [s \in Scanners |-> NoHolder]
    /\ calls = <<>>
    /\ cpc = "idle"
    /\ k = 1
    /\ wg = 0
    /\ errChan = <<>>
    /\ IdleTasks
    /\ reads = 0
    /\ rd = NoRead
    /\ NoProgram

\* One run of Scan.
NextChecks ==
    \/ calls = <<>> /\ CallScan(MainScanner)
    \/ ScanFail
    \/ ScanNext
    \/ ScanDone
    \/ \E t \in Checks :
          \/ CheckList(t)
          \/ AddLock(t)
          \/ AddRegion(t)
          \/ AddRead(t)
          \/ AddWrite(t)
          \/ AddUnlock(t)
          \/ CheckReturn(t)

SpecChecks == InitChecks /\ [][NextChecks]_vars

\* ------------------------------------------------------------- the claims

Count(seq, x) == Cardinality({i \in 1..Len(seq) : seq[i] = x})

\* The checks whose execution is inside addFinding's critical section.
InAddFinding(t) == pc[t] \in {"add_region", "add_read", "add_write", "add_unlock"}

\* C1: every finding in a scanner's store has the scanner's region, whatever
\* region it came with; the region is set while the mutex is held and before
\* the append reads or writes the store.
RegionNormalized ==
    /\ \A s \in Scanners : \A i \in 1..Len(findings[s]) : findings[s][i].Region = region
    /\ \A t \in Checks :
          pc[t] \in {"add_read", "add_write", "add_unlock"}
              => mu[Self] = t /\ cur[t].Region = region

\* C1 happens: the store holds a finding of a worker whose findings came with
\* another region and one of a worker whose findings came with none.
RegionOverwritten ==
    \E t, u \in Checks :
        /\ pending[t] # <<>> /\ pending[t][1].Region \notin {"", region}
        /\ pending[u] # <<>> /\ pending[u][1].Region = ""
        /\ \E i, j \in 1..Len(findings["A"]) :
              /\ findings["A"][i].ResourceID = t \o "-1"
              /\ findings["A"][j].ResourceID = u \o "-1"

\* The i-th finding of worker t, as the store holds it.
Stored(t, i) == SetRegion(WorkerFindings(t, "")[i], region)

\* addFinding has stored the i-th finding of worker t.
Appended(t, i) ==
    LET handed == MaxAppends - Len(pending[t])
    IN  IF pc[t] \in {"add_region", "add_read", "add_write"}
        THEN i < handed
        ELSE i <= handed

\* C2: with three workers calling addFinding MaxAppends times each, in every
\* interleaving each finding is in the store exactly once as soon as its
\* addFinding has stored it and never before, at most one worker is inside
\* the critical section, and the store ends with 3 * MaxAppends findings.
AppendsExact ==
    /\ Cardinality({t \in Checks : InAddFinding(t)}) <= 1
    /\ \A t \in Checks : \A i \in 1..MaxAppends :
          Count(findings["A"], Stored(t, i)) = IF Appended(t, i) THEN 1 ELSE 0
    /\ Len(findings["A"]) =
          Cardinality({<<t, i>> \in Checks \X (1..MaxAppends) : Appended(t, i)})
    /\ (\A t \in Checks : pc[t] = "ret")
          => Len(findings["A"]) = Cardinality(Checks) * MaxAppends

\* C2 happens: all the workers are through and their appends interleaved.
AllAppended ==
    /\ \A t \in Checks : pc[t] = "ret"
    /\ Len(findings["A"]) = Cardinality(Checks) * MaxAppends
    /\ findings["A"][1].ResourceID = "sg-1"
    /\ findings["A"][2].ResourceID = "s3-1"
    /\ findings["A"][3].ResourceID = "sg-2"

\* The call in progress, or the last one made, is of this method and has
\* returned.
HasReturned(method) ==
    /\ calls # <<>>
    /\ Current.method = method
    /\ Current.ret # Pending

\* Call i is the only call made on its scanner.
OnlyCall(i) == \A j \in 1..Len(calls) : calls[j].scanner = calls[i].scanner => j = i

\* The stores that the checks ts, run to their end in this order on a new
\* scanner, can leave.
StoresAfter(ts) ==
    Products([i \in 1..Len(ts) |->
                 {[j \in 1..Len(r) |-> SetRegion(r[j], region)] :
                      r \in CheckResults(ts[i], api)}])

\* The findings of the checks whose listing call succeeds, as a bag.
SucceededBag ==
    LET ok == SelectSeq(CheckOrder, LAMBDA t : ~api[t].err)
    IN  SeqBag(CHOOSE st \in StoresAfter(ok) : TRUE)

NoListingFails == \A t \in Checks : ~api[t].err

\* C3: when no listing call fails, a scanner that Scan() was run on and a
\* scanner that ScanConcurrent() was run on, over the same account, hold the
\* same findings as multisets, whatever the interleaving of the checks.
SequentialConcurrentSame ==
    \A i, j \in 1..Len(calls) :
        (/\ NoListingFails
         /\ calls[i].method = "Scan" /\ calls[i].ret # Pending /\ OnlyCall(i)
         /\ calls[j].method = "ScanConcurrent" /\ calls[j].ret # Pending /\ OnlyCall(j))
        => /\ calls[i].ret = Nil
           /\ calls[j].ret = Nil
           /\ SeqBag(findings[calls[i].scanner]) = SeqBag(findings[calls[j].scanner])

\* C3 happens: both runs are over, every check had findings, and the two
\* stores hold them in different orders.
SameInAnotherOrder ==
    /\ Len(calls) = 2
    /\ calls[1].method = "Scan" /\ calls[2].method = "ScanConcurrent"
    /\ calls[1].scanner # calls[2].scanner
    /\ calls[2].ret = Nil
    /\ Len(findings[calls[1].scanner]) = 4
    /\ findings[calls[1].scanner] # findings[calls[2].scanner]

\* The place of check t in Scan's order.
OrderOf(t) == CHOOSE i \in 1..Len(CheckOrder) : CheckOrder[i] = t

\* C4: Scan runs the checks one at a time in the order s3, sg, iam: the check
\* it is at is the only one running, those before it have returned nil and
\* those after it have not been called; when Scan has returned an error, it
\* is the error of the first check whose listing fails, wrapped with that
\* check's name, and no later check was ever called; when it has returned
\* nil, every check has returned nil.
SequentialAbort ==
    /\ cpc = "scan" =>
          \A t \in Checks :
              /\ OrderOf(t) < k => pc[t] = "ret" /\ terr[t] = Nil
              /\ OrderOf(t) = k => pc[t] # "idle"
              /\ OrderOf(t) > k => pc[t] = "idle"
    /\ (HasReturned("Scan") /\ Current.ret # Nil) =>
          /\ api[CheckOrder[k]].err
          /\ Current.ret = Errorf(ScanMessage(CheckOrder[k]), ListError(CheckOrder[k]))
          /\ \A t \in Checks :
                /\ OrderOf(t) < k => ~api[t].err /\ pc[t] = "ret"
                /\ OrderOf(t) > k => pc[t] = "idle" /\ pending[t] = <<>>
    /\ (HasReturned("Scan") /\ Current.ret = Nil) =>
          \A t \in Checks : pc[t] = "ret" /\ terr[t] = Nil /\ ~api[t].err

\* C4 happens: the security-group listing failed after S3 had findings, IAM
\* has findings to report, and Scan has returned the wrapped error.
AbortedAtSecurityGroups ==
    /\ HasReturned("Scan")
    /\ Current.ret =
          "Security Group scan failed: failed to describe security groups: RequestError"
    /\ api["iam"].items # <<>>
    /\ pc["iam"] = "idle"

\* C5: when Scan, run on a new scanner, has returned the error of check k,
\* the store holds exactly the findings of the checks before k, in order,
\* and nothing of k or of a later check.
SequentialNoRollback ==
    (/\ HasReturned("Scan")
     /\ Current.ret # Nil
     /\ OnlyCall(Len(calls)))
    => findings[Self] \in StoresAfter(SubSeq(CheckOrder, 1, k - 1))

\* C5 happens: the security-group listing failed, the two S3 findings are in
\* the store and the IAM user without MFA is not.
StorageKeptIdentityAbsent ==
    /\ HasReturned("Scan")
    /\ Current.ret # Nil
    /\ k = 2
    /\ Len(findings[Self]) = 2
    /\ \A i \in 1..2 : findings[Self][i].ResourceType = ResourceS3
    /\ api["iam"].items # <<>>

\* C6: ScanConcurrent has launched the three goroutines when it starts to
\* wait, and when it has returned, with or without an error, every goroutine
\* is done: none was cancelled, none is still running or has anything left
\* to append.
JoinBarrier ==
    /\ cpc = "wait" => \A t \in Checks : pc[t] # "idle"
    /\ HasReturned("ScanConcurrent") =>
          /\ wg = 0
          /\ \A t \in Checks :
                /\ pc[t] = "done"
                /\ pending[t] = <<>>
                /\ ~InAddFinding(t)

\* C6 happens: ScanConcurrent has returned the error of a failed check and
\* the other two checks have run to their end and left their findings.
JoinedAfterFailure ==
    /\ HasReturned("ScanConcurrent")
    /\ Current.ret = ListError("s3")
    /\ \A t \in Checks : pc[t] = "done"
    /\ Len(findings[Self]) = 2

\* C7: the step by which ScanConcurrent returns gives nil exactly when no
\* listing call failed; otherwise it gives one error, the one that was put
\* on the channel first, which is the error of a failed check.
ConcurrentErrorReduction ==
    [][(cpc = "wait" /\ cpc' = "idle") =>
          LET ret == calls'[Len(calls')].ret
          IN  /\ (ret = Nil) <=> NoListingFails
              /\ ret # Nil =>
                    /\ ret = errChan[1]
                    /\ \E t \in Checks : api[t].err /\ ret = ListError(t)]_vars

\* C7 happens: all three checks failed and ScanConcurrent has returned the
\* error of the check launched last, which reported first.
LastLaunchedReportedFirst ==
    /\ HasReturned("ScanConcurrent")
    /\ \A t \in Checks : api[t].err
    /\ Current.ret = ListError("iam")
    /\ errChan = <<ListError("sg"), ListError("s3")>>

\* C8: when ScanConcurrent, run on a new scanner, has returned an error, the
\* store holds every finding of every check whose listing succeeded, each
\* once, and nothing else.
SiblingFindingsSurvive ==
    (/\ HasReturned("ScanConcurrent")
     /\ Current.ret # Nil
     /\ OnlyCall(Len(calls)))
    => SeqBag(findings[Self]) = SucceededBag

\* C8 happens: the security-group check failed and the store holds the two
\* S3 findings and the IAM finding.
SiblingsKept ==
    /\ HasReturned("ScanConcurrent")
    /\ Current.ret = ListError("sg")
    /\ Len(findings[Self]) = 3
    /\ findings[Self][2].ResourceType = ResourceIAM

AlreadyRunError == "AlreadyRunError"

\* C9: a scanner runs once: a call of Scan or ScanConcurrent on a scanner
\* that a run method was called on before returns AlreadyRunError and hands
\* nothing to addFinding.
RunOnceGuard ==
    \A j \in 1..Len(calls) :
        (\E i \in 1..(j - 1) : calls[i].scanner = calls[j].scanner)
        => /\ calls[j].ret \in {Pending, AlreadyRunError}
           /\ j = Len(calls) => \A t \in Checks : ~InAddFinding(t)

\* C10: the read accessors hold the scanner's mutex while they read the
\* store: no call of GetFindings or GetFindingsBySeverity reads it while a
\* check is inside addFinding's critical section on that scanner.
ReadsExcludeAppends ==
    [][reads' # reads => mu[rd'.scanner] = NoHolder]_vars

\* ------------------------------------------------------- claims about main

HasCritical(s) == \E i \in 1..Len(findings[s]) : findings[s][i].Severity = SeverityCritical

ScanReturned == calls # <<>> /\ Current.ret # Pending
ScanSucceeded == ScanReturned /\ Current.ret = Nil

\* C11: once the process has exited after a scan that returned no error, its
\* exit status is non-zero whenever the store holds a CRITICAL finding,
\* whatever the output format was; an exit status of 0 means the store holds
\* no CRITICAL finding.
ExitOnCritical ==
    mpc = "exited" =>
        /\ (ScanSucceeded /\ HasCritical(MainScanner)) => exitCode # 0
        /\ exitCode = 0 => ~HasCritical(MainScanner)

\* The report was written to a file, and the process exited with status 1
\* for the CRITICAL finding in the store.
ExitedOnCriticalAfterReport ==
    /\ mpc = "exited"
    /\ ScanSucceeded
    /\ Len(out) = 1
    /\ out[1].op = "WriteFile"
    /\ HasCritical(MainScanner)
    /\ exitCode = 1

\* C12: when NewScanner failed (no run was started) or the run returned an
\* error, the process has exited with a non-zero status without a read of
\* the findings, without building a Reporter and without any output of one.
FailBeforeReporting ==
    (mpc = "exited" /\ ~ScanSucceeded) =>
        /\ exitCode # 0
        /\ reads = 0
        /\ rep = ""
        /\ out = <<>>

\* The run failed with findings of a successful check in the store, and the
\* process exited without reporting them.
ExitedWithUnreportedFindings ==
    /\ mpc = "exited"
    /\ ScanReturned
    /\ Current.ret # Nil
    /\ findings[MainScanner] # <<>>
    /\ out = <<>>

\* --------------------------------------------------- claims about the sort

\* Where the finding f is in fs.
PositionOf(fs, f) == CHOOSE p \in 1..Len(fs) : fs[p] = f

\* Is fs in the order CRITICAL, HIGH, MEDIUM, LOW?
Priority == <<SeverityCritical, SeverityHigh, SeverityMedium, SeverityLow>>
PriorityOf(f) == CHOOSE p \in 1..Len(Priority) : Priority[p] = f.Severity
InSeverityOrder(fs) ==
    \A i, j \in 1..Len(fs) :
        (fs[i].Severity \in Severities /\ fs[j].Severity \in Severities /\ i < j)
            => PriorityOf(fs[i]) <= PriorityOf(fs[j])

\* C13: SortBySeverity is stable: a step of it keeps any two findings of
\* equal severity in the order they were in, and leaves a slice that is
\* already in severity order exactly as it is.
StableSort ==
    [][(mpc = "sort" /\ mpc' = "output") =>
          LET before == findings[rep]
              after == findings'[rep]
          IN  /\ \A i, j \in 1..Len(before) :
                    (i < j /\ before[i].Severity = before[j].Severity)
                        => PositionOf(after, before[i]) < PositionOf(after, before[j])
              /\ InSeverityOrder(before) => after = before]_vars

\* C14: after SortBySeverity, among the findings of the four severities
\* every CRITICAL finding comes before every HIGH one, every HIGH before
\* every MEDIUM, every MEDIUM before every LOW.
SortedBySeverity ==
    mpc = "output" => InSeverityOrder(ReporterFindings)

\* A slice of all four severities has been sorted, and the sort moved its
\* first element.
AllSeveritiesSorted ==
    /\ mpc = "output"
    /\ {ReporterFindings[i].Severity : i \in 1..Len(ReporterFindings)} = Severities
    /\ ReporterFindings[1].ResourceID # "resource-1"

\* -------------------------------------------------- claims about the store

\* The indices of the findings of fs that have the severity, and the n-th
\* of them.
Matching(fs, severity) == {i \in 1..Len(fs) : fs[i].Severity = severity}
NthMatching(fs, severity, n) ==
    CHOOSE i \in Matching(fs, severity) :
        Cardinality({j \in Matching(fs, severity) : j <= i}) = n

\* C15: a call of GetFindingsBySeverity (GetCriticalFindings is the call
\* with CRITICAL) made while no append to the store is in progress returns
\* the findings of the store that have the severity, each once and in the
\* order of the store, and leaves the store as it was.
SeverityFilterExact ==
    [][(reads' # reads /\ rd'.op = "GetFindingsBySeverity" /\ mu[rd'.scanner] = NoHolder) =>
          LET store == findings[rd'.scanner]
              sev == rd'.severity
          IN  /\ Len(rd'.result) = Cardinality(Matching(store, sev))
              /\ \A n \in 1..Len(rd'.result) : rd'.result[n] = store[NthMatching(store, sev, n)]
              /\ findings' = findings]_vars

\* A call that returned some of the findings of a store: not all of them.
FilteredSome ==
    /\ reads = 1
    /\ rd.op = "GetFindingsBySeverity"
    /\ mu[rd.scanner] = NoHolder
    /\ rd.result # <<>>
    /\ Len(rd.result) < Len(findings[rd.scanner])

\* C16: every step of a run of Scan or ScanConcurrent leaves the store of
\* each scanner as it was or with one more finding at its end, so each
\* value of the store is a prefix of every later one.
AppendOnly ==
    [][\A s \in Scanners :
          \/ findings'[s] = findings[s]
          \/ /\ Len(findings'[s]) = Len(findings[s]) + 1
             /\ SubSeq(findings'[s], 1, Len(findings[s])) = findings[s]]_vars

\* A concurrent run still in progress whose store has grown to three
\* findings.
GrownDuringRun ==
    /\ calls # <<>>
    /\ Current.method = "ScanConcurrent"
    /\ Current.ret = Pending
    /\ Len(findings[Self]) >= 3

\* C17: no step of the scanner, the Reporter or main changes a field of a
\* finding that is in the store: every finding of the store is still in it,
\* as it was, after the step.
FindingsImmutable ==
    [][\A s \in Scanners : SeqBag(findings[s]) \sqsubseteq SeqBag(findings'[s])]_vars

\* The process has exited after a report of a store the sort had to reorder.
ReportedReordered ==
    /\ mpc = "exited"
    /\ out # <<>>
    /\ Len(findings[MainScanner]) >= 2
    /\ findings[MainScanner][1].ResourceType # ResourceS3
    /\ \E i \in 1..Len(findings[MainScanner]) : findings[MainScanner][i].ResourceType = ResourceS3

\* ------------------------------------------------- claims about the checks

\* How many findings of fs have the title.
Titled(fs, title) == Cardinality({i \in 1..Len(fs) : fs[i].Title = title})

\* The run of Scan has returned without an error.
Scanned == calls # <<>> /\ Current.ret = Nil

\* C18: in every state, every finding in a store has one of the severities
\* CRITICAL, HIGH, MEDIUM, LOW.
ValidSeverity ==
    \A s \in Scanners : \A i \in 1..Len(findings[s]) :
        findings[s][i].Severity \in {"CRITICAL", "HIGH", "MEDIUM", "LOW"}

\* A store with a finding of each severity the checks give.
ThreeSeveritiesStored ==
    {findings[MainScanner][i].Severity : i \in 1..Len(findings[MainScanner])}
        = {"CRITICAL", "HIGH", "MEDIUM"}

\* The port table as the claim has it.
TablePorts == {22, 3389, 5432, 3306, 1433, 27017, 6379}
TableService(port) ==
    CASE port = 22 -> "SSH" [] port = 3389 -> "RDP" [] port = 5432 -> "PostgreSQL"
      [] port = 3306 -> "MySQL" [] port = 1433 -> "SQL Server"
      [] port = 27017 -> "MongoDB" [] port = 6379 -> "Redis"

\* The rule of the account, when the account is one group with one rule
\* that has 0.0.0.0/0 as a source once.
OpenRules ==
    {api.sg.items[g].IpPermissions[1] : g \in {h \in 1..Len(api.sg.items) :
        Count(api.sg.items[h].IpPermissions[1].IpRanges, AnyCidr) = 1}}

\* Is the finding one of the network check?
IsGroupFinding(f) == f.ResourceType = "SECURITY_GROUP"

PublicGrants(grants) ==
    Cardinality({i \in 1..Len(grants) :
        grants[i] \in {"http://acs.amazonaws.com/groups/global/AllUsers",
                       "http://acs.amazonaws.com/groups/global/AuthenticatedUsers"}})

\* C20: after a scan, the store holds for each bucket exactly one CRITICAL
\* "S3 Bucket Publicly Accessible" finding when the ACL of the bucket has
\* one or more grants to AllUsers or AuthenticatedUsers, and none when it
\* has no such grant.
OnePublicFindingPerBucket ==
    Scanned =>
        \A b \in 1..Len(api.s3.items) :
            LET bucket == api.s3.items[b]
                public == {i \in 1..Len(findings[MainScanner]) :
                             /\ findings[MainScanner][i].Title = "S3 Bucket Publicly Accessible"
                             /\ findings[MainScanner][i].ResourceID = bucket.Name}
            IN  /\ Cardinality(public) = IF PublicGrants(bucket.Grants) >= 1 THEN 1 ELSE 0
                /\ \A i \in public : findings[MainScanner][i].Severity = "CRITICAL"

\* A bucket with two public grants has been scanned: one finding for it.
TwoPublicGrantsOneFinding ==
    /\ Scanned
    /\ Len(api.s3.items) = 1
    /\ PublicGrants(api.s3.items[1].Grants) = 2
    /\ Titled(findings[MainScanner], "S3 Bucket Publicly Accessible") = 1

\* How many findings of the store of main's scanner are about the resource
\* and have the title; and the severities of those.
About(id, title) ==
    {i \in 1..Len(findings[MainScanner]) :
        /\ findings[MainScanner][i].ResourceID = id
        /\ findings[MainScanner][i].Title = title}
SeveritiesAbout(id, title) == {findings[MainScanner][i].Severity : i \in About(id, title)}

\* The check has returned to Scan, with no error.
CheckSucceeded(t) == pc[t] = "ret" /\ terr[t] = Nil

\* C21: once scanIAM has returned, a user of the list has an "IAM User
\* Without MFA" finding, and then one and of severity HIGH, exactly when the
\* login-profile lookup succeeded and the MFA-device listing succeeded with
\* zero devices; a user without a login profile has none, also with zero MFA
\* devices; and at no time has a user more than one.
MFARule ==
    \A u \in 1..Len(api.iam.items) :
        LET user == api.iam.items[u]
            mfa == About(user.UserName, "IAM User Without MFA")
        IN  /\ Cardinality(mfa) <= 1
            /\ SeveritiesAbout(user.UserName, "IAM User Without MFA") \subseteq {"HIGH"}
            /\ user.LoginProfileErr => mfa = {}
            /\ CheckSucceeded("iam") =>
                  (mfa # {} <=> (~user.LoginProfileErr /\ ~user.MFAErr /\ user.MFADevices = 0))

\* Two users have been scanned: the one with no login profile and no MFA
\* device has no finding, the one with console access and no device has one.
NoProfileNoFinding ==
    /\ Scanned
    /\ Len(api.iam.items) = 2
    /\ api.iam.items[1].LoginProfileErr /\ api.iam.items[1].MFADevices = 0
    /\ About(api.iam.items[1].UserName, "IAM User Without MFA") = {}
    /\ About(api.iam.items[2].UserName, "IAM User Without MFA") # {}

\* C22: a check that has returned returned an error exactly when its listing
\* call failed, whatever the lookups on the resources gave; and when the
\* listing succeeded, every resource of the list has been examined, whatever
\* the lookups on the others gave: a bucket has a HIGH "Not Encrypted"
\* finding exactly when its encryption lookup failed, no public-access
\* finding when its ACL lookup failed, no versioning finding when its
\* versioning lookup failed and one when that gave a status other than
\* Enabled, one public-access finding when its ACL has a public grant; a
\* user has no MFA finding when the device listing failed and one when it
\* has console access and no device.
FailureAsymmetry ==
    /\ \A t \in Checks : pc[t] = "ret" => (terr[t] # Nil <=> api[t].err)
    /\ CheckSucceeded("s3") =>
          \A b \in 1..Len(api.s3.items) :
              LET bucket == api.s3.items[b]
                  n(title) == Cardinality(About(bucket.Name, title))
              IN  /\ n("S3 Bucket Not Encrypted") = IF bucket.EncryptionErr THEN 1 ELSE 0
                  /\ SeveritiesAbout(bucket.Name, "S3 Bucket Not Encrypted") \subseteq {"HIGH"}
                  /\ n("S3 Bucket Publicly Accessible")
                        = IF ~bucket.AclErr /\ PublicGrants(bucket.Grants) >= 1 THEN 1 ELSE 0
                  /\ n("S3 Bucket Versioning Disabled")
                        = IF ~bucket.VersioningErr /\ bucket.Status # "Enabled" THEN 1 ELSE 0
    /\ CheckSucceeded("iam") =>
          \A u \in 1..Len(api.iam.items) :
              LET user == api.iam.items[u]
              IN  Cardinality(About(user.UserName, "IAM User Without MFA"))
                     = IF ~user.LoginProfileErr /\ ~user.MFAErr /\ user.MFADevices = 0
                       THEN 1 ELSE 0

\* Two buckets have been scanned without an error: every lookup on the first
\* failed, which gave its "Not Encrypted" finding and nothing else, and the
\* second has its three findings.
LookupsFailedScanWentOn ==
    /\ Scanned
    /\ Len(api.s3.items) = 2
    /\ api.s3.items[1].EncryptionErr /\ api.s3.items[1].AclErr /\ api.s3.items[1].VersioningErr
    /\ Len(findings[MainScanner]) = 4
    /\ findings[MainScanner][1].Title = "S3 Bucket Not Encrypted"
    /\ \A i \in 2..4 : findings[MainScanner][i].ResourceID = api.s3.items[2].Name

\* ------------------------------------------------- claims about the run

\* C23: in a call of ScanConcurrent, whichever checks fail: the error
\* channel never holds more than 3 errors, nor two of one check; a check at
\* its send never finds the channel full; every goroutine launched reaches
\* its Done; and the call, once made, returns.
ConcurrentTerminates ==
    /\ [](Len(errChan) <= 3)
    /\ [](\A t \in Checks : Count(errChan, ListError(t)) <= 1)
    /\ [](\A t \in Checks : pc[t] = "send" => Len(errChan) < 3)
    /\ \A t \in Checks : (pc[t] = "list") ~> (pc[t] = "done")
    /\ (cpc = "go") ~> (calls # <<>> /\ cpc = "idle" /\ Current.ret # Pending)

\* All three checks failed, all three errors were sent, and ScanConcurrent
\* has returned the first of them.
AllFailedAndReturned ==
    /\ calls # <<>>
    /\ Current.method = "ScanConcurrent"
    /\ Current.ret \notin {Pending, Nil}
    /\ \A t \in Checks : api[t].err /\ pc[t] = "done"
    /\ Len(errChan) = 2

\* The resource type of the findings of a check.
ResourceOf(t) ==
    CASE t = "s3" -> "S3_BUCKET" [] t = "sg" -> "SECURITY_GROUP" [] t = "iam" -> "IAM_USER"

\* The checks that a call of the method runs to their end without an error:
\* Scan, those before the first whose listing fails; ScanConcurrent, all
\* whose listing succeeds.
RECURSIVE UntilFailure(_)
UntilFailure(ts) ==
    IF ts = <<>> \/ api[Head(ts)].err THEN <<>> ELSE <<Head(ts)>> \o UntilFailure(Tail(ts))

RanAndSucceeded(method) ==
    IF method = "Scan" THEN UntilFailure(CheckOrder)
    ELSE SelectSeq(CheckOrder, LAMBDA t : ~api[t].err)

\* The findings of the checks that ran and succeeded in the first n calls,
\* those made on scanner s, as a bag.
RECURSIVE Contributed(_, _)
Contributed(s, n) ==
    IF n = 0 THEN EmptyBag
    ELSE Contributed(s, n - 1)
         (+) (IF calls[n].scanner = s
              THEN SeqBag(CHOOSE st \in StoresAfter(RanAndSucceeded(calls[n].method)) : TRUE)
              ELSE EmptyBag)

\* C24: a check that has returned an error has put no finding in the store;
\* and between runs, sequential or concurrent, failed or not, the store of a
\* scanner holds exactly the findings of the checks that ran and succeeded in
\* the runs made on it, each once per run.
FailedCheckContributesNothing ==
    /\ \A t \in Checks : terr[t] # Nil =>
          \A i \in 1..Len(findings[Self]) : findings[Self][i].ResourceType # ResourceOf(t)
    /\ cpc = "idle" =>
          \A s \in Scanners : SeqBag(findings[s]) = Contributed(s, Len(calls))

\* A sequential run stopped at the failed network check and a concurrent run
\* in which the same check failed have both returned: the first store has
\* the storage findings only, the second the identity finding as well.
FailedCheckLeftNothing ==
    /\ Len(calls) = 2
    /\ cpc = "idle"
    /\ calls[1].method = "Scan" /\ calls[2].method = "ScanConcurrent"
    /\ calls[1].scanner # calls[2].scanner
    /\ api["sg"].err /\ ~api["s3"].err /\ ~api["iam"].err
    /\ Len(findings[calls[1].scanner]) = 2
    /\ Len(findings[calls[2].scanner]) = 3
    /\ \A s \in Scanners : \A i \in 1..Len(findings[s]) :
          findings[s][i].ResourceType # "SECURITY_GROUP"

\* Do the storage findings of fs precede its network findings, and those
\* its identity findings?
TypeOrder == <<"S3_BUCKET", "SECURITY_GROUP", "IAM_USER">>
TypeRank(f) == CHOOSE r \in 1..Len(TypeOrder) : TypeOrder[r] = f.ResourceType
GroupedByCheck(fs) ==
    \A i, j \in 1..Len(fs) : i < j => TypeRank(fs[i]) <= TypeRank(fs[j])

\* C25, as claimed: at every point during and after Scan(), the storage
\* findings in the store precede the network findings, which precede the
\* identity findings.
SequentialGrouped ==
    (calls # <<>> /\ Current.method = "Scan") => GroupedByCheck(findings[Self])

\* SortBySeverity has not been applied to the store.
NotYetSorted == rep = "" \/ mpc = "sort"

\* C25: in a run of main without -concurrent, at every point during Scan()
\* and after it until rep.SortBySeverity() is applied, the storage findings
\* in the store precede the network findings, which precede the identity
\* findings.
SequentialGroupedUntilSorted ==
    (calls # <<>> /\ Current.method = "Scan" /\ NotYetSorted)
        => GroupedByCheck(findings[Self])

\* Scan has returned, the Reporter is about to sort, and the store holds the
\* findings of the three checks, grouped.
GroupedBeforeSort ==
    /\ ScanSucceeded
    /\ Current.method = "Scan"
    /\ mpc = "sort"
    /\ {findings[Self][i].ResourceType : i \in 1..Len(findings[Self])}
          = {"S3_BUCKET", "SECURITY_GROUP", "IAM_USER"}
    /\ GroupedByCheck(findings[Self])

\* Under ScanConcurrent the findings of the checks interleave: a store that
\* is not grouped, before any sort.
ConcurrentInterleaved ==
    /\ calls # <<>>
    /\ Current.method = "ScanConcurrent"
    /\ NotYetSorted
    /\ ~GroupedByCheck(findings[Self])

\* The set of the findings of a sequence.
FindingSet(fs) == {fs[i] : i \in 1..Len(fs)}

\* C26: from the Reporter's construction on, every step of the report
\* (SortBySeverity, PrintConsole, PrintTable, GenerateJSON, SaveJSON, failed or
\* not) leaves the multiset of findings in the scanner's store as it was, and
\* the GetCriticalFindings() that follows returns the set of CRITICAL
\* findings of the store GetFindings() returned before the report.
ReportingPreservesStore ==
    [][(mpc \in {"sort", "output", "critical"}) =>
         /\ SeqBag(findings'[MainScanner]) = SeqBag(findings[MainScanner])
         /\ (mpc = "critical" =>
               /\ rd.op = "GetFindings"
               /\ rd'.op = "GetFindingsBySeverity"
               /\ FindingSet(rd'.result)
                    = FindingSet(Filter(rd.result, SeverityCritical)))]_vars

\* The report was written over a store the sort had reordered, and
\* GetCriticalFindings() then returned its CRITICAL findings.
CriticalReadAfterReorderedReport ==
    /\ mpc = "exited"
    /\ out # <<>>
    /\ ~flags.concurrent
    /\ ~GroupedByCheck(findings[MainScanner])
    /\ rd.op = "GetFindingsBySeverity"
    /\ rd.result # <<>>

\* The report failed (JSON generation or the file write) over a store the
\* sort had reordered: the store still holds the findings GetFindings()
\* returned.
ReportFailedStoreKept ==
    /\ mpc = "exited"
    /\ flags.output = "json"
    /\ out = <<>>
    /\ rep # ""
    /\ rd.op = "GetFindings"
    /\ rd.result # findings[MainScanner]
    /\ SeqBag(rd.result) = SeqBag(findings[MainScanner])

====
